---- MODULE Spec2Model ----
(***************************************************************************)
(* Model of src/app.py: the start-up lookup of API_KEY / API_URL and the   *)
(* request orchestration of call_gemini_api (validation, bounded retry     *)
(* with exponential backoff, extraction of the generated text).            *)
(***************************************************************************)
EXTENDS Integers, Sequences, FiniteSets, TLC

(* ---------------------------------------------------------------------- *)
(* Bounds and program constants                                            *)
(* ---------------------------------------------------------------------- *)

\* longest input snippet (in characters) entered in the text area
MaxInputLen == 2

\* app.py:59  max_retries = 3
max_retries == 3

\* the calls (button handlers) that may be in progress
Calls == {1, 2}

\* characters of an input snippet: two kinds of whitespace and one other
Chars == {" ", "\n", "x"}

Whitespace == {" ", "\n"}

RECURSIVE SeqsUpTo(_)
SeqsUpTo(n) ==
    IF n = 0 THEN {<<>>}
    ELSE LET S == SeqsUpTo(n - 1)
         IN  S \cup {Append(s, c) : s \in {t \in S : Len(t) = n - 1}, c \in Chars}

\* the snippets a single call is tried on
Inputs == SeqsUpTo(MaxInputLen)

\* the snippets two concurrent calls are tried on
ConcInputs == {<<>>, <<" ">>, <<"x">>}

(* ---------------------------------------------------------------------- *)
(* Python values decoded from JSON                                         *)
(* ---------------------------------------------------------------------- *)

JNull == [type |-> "null"]

JStr(s) == [type |-> "str", val |-> s]

JList(xs) == [type |-> "list", items |-> xs]

JDict(f) == [type |-> "dict", fields |-> f]

NoFields == [k \in {} |-> JNull]

Field(k, v) == [x \in {k} |-> v]

EmptyDict == JDict(NoFields)

\* Python truth value of a decoded JSON value (app.py:73 "if text:")
Truthy(v) ==
    CASE v.type = "null" -> FALSE
      [] v.type = "str"  -> v.val # ""
      [] v.type = "list" -> v.items # <<>>
      [] v.type = "dict" -> DOMAIN v.fields # {}

\* the value of an expression: a value, or a raised exception
Ok(v) == [ok |-> TRUE, val |-> v, exc |-> "none"]

Raise(e) == [ok |-> FALSE, val |-> JNull, exc |-> e]

\* r.get(k, default): only a dict has .get
PyGet(r, k, default) ==
    IF ~r.ok THEN r
    ELSE IF r.val.type = "dict"
         THEN IF k \in DOMAIN r.val.fields THEN Ok(r.val.fields[k]) ELSE Ok(default)
         ELSE Raise("AttributeError")

\* r[0]
PyIndex0(r) ==
    IF ~r.ok THEN r
    ELSE CASE r.val.type = "list" ->
                IF r.val.items # <<>> THEN Ok(r.val.items[1]) ELSE Raise("IndexError")
           [] r.val.type = "str"  ->
                \* the first character of a str is again a str
                IF r.val.val # "" THEN Ok(r.val) ELSE Raise("IndexError")
           [] r.val.type = "dict" -> Raise("KeyError")
           [] r.val.type = "null" -> Raise("TypeError")

\* slip: the .get('content', {}) level forgotten
ExtractTextNoContent(result) ==
    PyGet(
      PyIndex0(
        PyGet(
          PyIndex0(PyGet(Ok(result), "candidates", JList(<<EmptyDict>>))),
          "parts", JList(<<EmptyDict>>))),
      "text", JNull)

\* app.py:71
ExtractText(result) ==
    PyGet(
      PyIndex0(
        PyGet(
          PyGet(
            PyIndex0(PyGet(Ok(result), "candidates", JList(<<EmptyDict>>))),
            "content", EmptyDict),
          "parts", JList(<<EmptyDict>>))),
      "text", JNull)

(* ---------------------------------------------------------------------- *)
(* What the endpoint may answer to one POST                                *)
(* ---------------------------------------------------------------------- *)

Part(t) == JDict(Field("text", t))

Body(parts) ==
    JDict(Field("candidates",
        JList(<<JDict(Field("content", JDict(Field("parts", parts))))>>)))

BodyText1 == Body(JList(<<Part(JStr("# commented\ncode"))>>))

BodyText2 == Body(JList(<<Part(JStr("  # print the number 1\nprint(1)\n"))>>))

BodyEmptyText == Body(JList(<<Part(JStr(""))>>))

BodyNullText == Body(JList(<<Part(JNull)>>))

BodyNoText == Body(JList(<<EmptyDict>>))

BodyEmptyParts == Body(JList(<<>>))

BodyNoParts ==
    JDict(Field("candidates", JList(<<JDict(Field("content", EmptyDict))>>)))

BodyNoContent == JDict(Field("candidates", JList(<<EmptyDict>>)))

BodyNullContent ==
    JDict(Field("candidates", JList(<<JDict(Field("content", JNull))>>)))

BodyEmptyCandidates == JDict(Field("candidates", JList(<<>>)))

BodyNoCandidates == EmptyDict

BodyTopLevelList == JList(<<>>)

Bodies ==
    { BodyText1, BodyText2, BodyEmptyText, BodyNullText, BodyNoText,
      BodyEmptyParts, BodyNoParts, BodyNoContent, BodyNullContent,
      BodyEmptyCandidates, BodyNoCandidates, BodyTopLevelList }

\* requests.post raises (no connection, timeout, ...)
ConnFail == [kind |-> "ConnectionError", body |-> JNull]

\* the server answers 4xx/5xx: raise_for_status raises
HttpError == [kind |-> "HTTPError", body |-> JNull]

\* status 2xx, the body is not JSON
NotJson == [kind |-> "NotJson", body |-> JNull]

Json(b) == [kind |-> "Json", body |-> b]

Outcomes == {ConnFail, HttpError, NotJson} \cup {Json(b) : b \in Bodies}

ConcOutcomes ==
    {ConnFail, HttpError, NotJson} \cup
    {Json(b) : b \in {BodyText1, BodyText2, BodyEmptyText, BodyEmptyCandidates}}

(* ---------------------------------------------------------------------- *)
(* call_gemini_api, one iteration of the retry loop                        *)
(* ---------------------------------------------------------------------- *)

RECURSIVE LStrip(_)
LStrip(s) ==
    IF s # <<>> /\ Head(s) \in Whitespace THEN LStrip(Tail(s)) ELSE s

RECURSIVE RStrip(_)
RStrip(s) ==
    IF s # <<>> /\ s[Len(s)] \in Whitespace
    THEN RStrip(SubSeq(s, 1, Len(s) - 1))
    ELSE s

\* slip: the test "if not code_snippet" without strip()
StripOmitted(s) == s

\* str.strip(): leading and trailing whitespace removed (app.py:37)
Strip(s) == RStrip(LStrip(s))

\* slip: 2 * attempt for 2 ** attempt
Pow2Linear(n) == 2 * n

RECURSIVE Pow2(_)
\* 2 ** n (app.py:82)
Pow2(n) == IF n = 0 THEN 1 ELSE 2 * Pow2(n - 1)

\* the exception classes that derive from requests.exceptions.RequestException
IsRequestException(e) == e \in {"ConnectionError", "HTTPError", "JSONDecodeError"}

\* slip: "except ValueError" for "except Exception"
IsExceptionNarrow(e) == e \in {"JSONDecodeError", "ValueError"}

\* the exception classes that derive from Exception
IsException(e) ==
    e \in {"ConnectionError", "HTTPError", "JSONDecodeError", "ValueError",
           "IndexError", "AttributeError", "TypeError", "KeyError"}

\* app.py:65-71: post, raise_for_status, json(), extraction of the text.
\* response.json() on an undecodable body raises requests' JSONDecodeError
\* (a RequestException) with requests >= 2.27 and a plain ValueError before.
ResponseText(o, jsonErrIsReqExc) ==
    CASE o.kind = "ConnectionError" -> Raise("ConnectionError")
      [] o.kind = "HTTPError"       -> Raise("HTTPError")
      [] o.kind = "NotJson"         ->
            Raise(IF jsonErrIsReqExc THEN "JSONDecodeError" ELSE "ValueError")
      [] o.kind = "Json"            -> ExtractText(o.body)

Return(v, e) == [next |-> "return", ret |-> v, err |-> e, wait |-> 0, exc |-> "none"]

Retry(w) == [next |-> "sleep", ret |-> JNull, err |-> "none", wait |-> w, exc |-> "none"]

Uncaught(x) == [next |-> "uncaught", ret |-> JNull, err |-> "none", wait |-> 0, exc |-> x]

\* slip: gives up one attempt early
OnRequestExceptionEarly(n) ==
    IF n < max_retries - 2
    THEN Retry(Pow2(n))
    ELSE Return(JNull, "NetworkError")

\* slip: "attempt < max_retries", the last failure sleeps and falls out of the loop
OnRequestExceptionLate(n) ==
    IF n < max_retries
    THEN Retry(Pow2(n))
    ELSE Return(JNull, "NetworkError")

\* app.py:80-88, the handler of RequestException
OnRequestException(n) ==
    IF n < max_retries - 1
    THEN Retry(Pow2(n))
    ELSE Return(JNull, "NetworkError")

\* app.py:61-91, the body of the loop for attempt n and its handlers
AttemptOnce(o, n, jsonErrIsReqExc) ==
    LET t == ResponseText(o, jsonErrIsReqExc)
    IN  IF t.ok
        THEN IF Truthy(t.val)
             THEN Return(t.val, "none")
             ELSE Return(JNull, "EmptyModelResponse")
        ELSE IF IsRequestException(t.exc) THEN OnRequestException(n)
        ELSE IF IsException(t.exc) THEN Return(JNull, "UnexpectedError")
        ELSE Uncaught(t.exc)

\* app.py:164-167, what the button handler stores for display
Displayed(v) ==
    IF Truthy(v) THEN v ELSE JStr("Error: Could not retrieve commented code.")

\* slip: only API_KEY is required, API_URL read with a default
StartupLookupKeyOnly(present) ==
    [ key     |-> IF "API_KEY" \in present THEN "<API_KEY>" ELSE "unset",
      url     |-> IF {"API_KEY", "API_URL"} \subseteq present THEN "<API_URL>" ELSE "unset",
      stopped |-> "API_KEY" \notin present ]

\* app.py:23-28: both secrets are looked up in order; a KeyError stops the script
StartupLookup(present) ==
    [ key     |-> IF "API_KEY" \in present THEN "<API_KEY>" ELSE "unset",
      url     |-> IF {"API_KEY", "API_URL"} \subseteq present THEN "<API_URL>" ELSE "unset",
      stopped |-> ~({"API_KEY", "API_URL"} \subseteq present) ]

\* slip: one module-level counter shared by the calls
NextAttemptShared(att, i) == [j \in Calls |-> att[j] + 1]

\* the loop variable of "for attempt in range(max_retries)" is local to a call
NextAttempt(att, i) == [att EXCEPT ![i] = @ + 1]

(* ---------------------------------------------------------------------- *)
(* State                                                                   *)
(* ---------------------------------------------------------------------- *)

VARIABLES
    secrets,        \* the keys present in st.secrets
    jsonErrorIsRequestException,  \* the installed requests is >= 2.27
    app,            \* "startup", "ready" or "halted" (st.stop)
    API_KEY,
    API_URL,
    configError,    \* st.error of app.py:27 was shown
    pc,             \* per call: "idle", "send", "sleep", "done", "crashed"
    code_snippet,   \* per call: the argument
    attempt,        \* per call: the loop variable
    wait_time,      \* per call: app.py:82
    posts,          \* per call: number of requests.post made
    sleeps,         \* per call: the time.sleep durations so far
    hist,           \* per call: what the endpoint answered to each post
    err,            \* per call: the st.error shown by the call
    ret,            \* per call: the returned value (JNull is None)
    uncaught,       \* per call: the exception that left the call
    output_code     \* per call: st.session_state.output_code

vars ==
    << secrets, jsonErrorIsRequestException, app, API_KEY, API_URL, configError,
       pc, code_snippet, attempt, wait_time, posts, sleeps, hist, err, ret,
       uncaught, output_code >>

config == << secrets, jsonErrorIsRequestException, app, API_KEY, API_URL, configError >>

Init ==
    /\ secrets \in SUBSET {"API_KEY", "API_URL"}
    /\ jsonErrorIsRequestException \in BOOLEAN
    /\ app = "startup"
    /\ API_KEY = "unset"
    /\ API_URL = "unset"
    /\ configError = FALSE
    /\ pc = [i \in Calls |-> "idle"]
    /\ code_snippet = [i \in Calls |-> <<>>]
    /\ attempt = [i \in Calls |-> 0]
    /\ wait_time = [i \in Calls |-> 0]
    /\ posts = [i \in Calls |-> 0]
    /\ sleeps = [i \in Calls |-> <<>>]
    /\ hist = [i \in Calls |-> <<>>]
    /\ err = [i \in Calls |-> "none"]
    /\ ret = [i \in Calls |-> JNull]
    /\ uncaught = [i \in Calls |-> "none"]
    /\ output_code =
         [i \in Calls |-> JStr("Click \"Generate Comments\" to see the results.")]

(* ---------------------------------------------------------------------- *)
(* Operations                                                              *)
(* ---------------------------------------------------------------------- *)

\* app.py:23-30, module level
Startup ==
    /\ app = "startup"
    /\ LET r == StartupLookup(secrets)
       IN  /\ API_KEY' = r.key
           /\ API_URL' = r.url
           /\ configError' = r.stopped
           /\ app' = IF r.stopped THEN "halted" ELSE "ready"
    /\ UNCHANGED << secrets, jsonErrorIsRequestException, pc, code_snippet, attempt,
                    wait_time, posts, sleeps, hist, err, ret, uncaught, output_code >>

\* the call ends: the button handler stores what is displayed (app.py:162-167)
Finish(i, v, e) ==
    /\ pc' = [pc EXCEPT ![i] = "done"]
    /\ ret' = [ret EXCEPT ![i] = v]
    /\ err' = [err EXCEPT ![i] = e]
    /\ output_code' = [output_code EXCEPT ![i] = Displayed(v)]

\* app.py:157-162 and 33-39: the button is pressed, the call validates its input
Call(i, ins) ==
    /\ app = "ready"
    /\ pc[i] = "idle"
    /\ \E s \in ins :
         /\ code_snippet' = [code_snippet EXCEPT ![i] = s]
         /\ IF Strip(s) = <<>>
            THEN Finish(i, JNull, "EmptyInput")
            ELSE /\ pc' = [pc EXCEPT ![i] = "send"]
                 /\ UNCHANGED << ret, err, output_code >>
    /\ UNCHANGED << config, attempt, wait_time, posts, sleeps, hist, uncaught >>

\* app.py:61-91: one post and the processing of its answer
Attempt(i, outs) ==
    /\ pc[i] = "send"
    /\ \E o \in outs :
         LET r == AttemptOnce(o, attempt[i], jsonErrorIsRequestException)
         IN  /\ posts' = [posts EXCEPT ![i] = @ + 1]
             /\ hist' = [hist EXCEPT ![i] = Append(@, o)]
             /\ CASE r.next = "return" ->
                       /\ Finish(i, r.ret, r.err)
                       /\ UNCHANGED << wait_time, uncaught >>
                  [] r.next = "sleep" ->
                       /\ pc' = [pc EXCEPT ![i] = "sleep"]
                       /\ wait_time' = [wait_time EXCEPT ![i] = r.wait]
                       /\ UNCHANGED << ret, err, output_code, uncaught >>
                  [] r.next = "uncaught" ->
                       /\ pc' = [pc EXCEPT ![i] = "crashed"]
                       /\ uncaught' = [uncaught EXCEPT ![i] = r.exc]
                       /\ UNCHANGED << ret, err, output_code, wait_time >>
    /\ UNCHANGED << config, code_snippet, attempt, sleeps >>

\* app.py:84 and 60: time.sleep(wait_time) returns, the loop goes on;
\* app.py:92 when the range is exhausted
Sleep(i) ==
    /\ pc[i] = "sleep"
    /\ sleeps' = [sleeps EXCEPT ![i] = Append(@, wait_time[i])]
    /\ attempt' = NextAttempt(attempt, i)
    /\ IF attempt'[i] < max_retries
       THEN /\ pc' = [pc EXCEPT ![i] = "send"]
            /\ UNCHANGED << ret, err, output_code >>
       ELSE Finish(i, JNull, "none")
    /\ UNCHANGED << config, code_snippet, wait_time, posts, hist, uncaught >>

\* one call
Next ==
    \/ Startup
    \/ Call(1, Inputs)
    \/ Attempt(1, Outcomes)
    \/ Sleep(1)

Spec == Init /\ [][Next]_vars

\* one call whose posts return and whose sleeps end
LiveSpec == Spec /\ WF_vars(Attempt(1, Outcomes)) /\ WF_vars(Sleep(1))

\* two calls, interleaved
ConcNext ==
    \/ Startup
    \/ \E i \in Calls : Call(i, ConcInputs)
    \/ \E i \in Calls : Attempt(i, ConcOutcomes)
    \/ \E i \in Calls : Sleep(i)

ConcSpec == Init /\ [][ConcNext]_vars

TypeOK ==
    /\ app \in {"startup", "ready", "halted"}
    /\ \A i \in Calls :
         /\ pc[i] \in {"idle", "send", "sleep", "done", "crashed"}
         /\ attempt[i] \in 0..max_retries
         /\ posts[i] = Len(hist[i])

(* ---------------------------------------------------------------------- *)
(* Vocabulary of the properties                                            *)
(* ---------------------------------------------------------------------- *)

\* empty, or whitespace only
Blank(s) == \A k \in 1..Len(s) : s[k] \in Whitespace

\* the send step failed: transport failure or HTTP 4xx/5xx
SendFailed(o) == o.kind \in {"ConnectionError", "HTTPError"}

Last(h) == h[Len(h)]

Answered(i) == hist[i] # <<>> /\ Last(hist[i]).kind = "Json"

IsDict(v) == v.type = "dict"

IsList(v) == v.type = "list"

Has(v, k) == k \in DOMAIN v.fields

\* the body has candidates[0].content.parts[0].text, level by level
HasTextPath(b) ==
    /\ IsDict(b) /\ Has(b, "candidates")
    /\ IsList(b.fields["candidates"]) /\ b.fields["candidates"].items # <<>>
    /\ LET c == b.fields["candidates"].items[1]
       IN  /\ IsDict(c) /\ Has(c, "content")
           /\ IsDict(c.fields["content"]) /\ Has(c.fields["content"], "parts")
           /\ LET ps == c.fields["content"].fields["parts"]
              IN  /\ IsList(ps) /\ ps.items # <<>>
                  /\ IsDict(ps.items[1]) /\ Has(ps.items[1], "text")

TextAtPath(b) ==
    b.fields["candidates"].items[1].fields["content"].fields["parts"].items[1].fields["text"]

\* a key of the path is missing or a list of the path has no first element,
\* everything above it being a dict or a list as expected
LacksTextPath(b) ==
    /\ IsDict(b)
    /\ \/ ~Has(b, "candidates")
       \/ /\ IsList(b.fields["candidates"])
          /\ \/ b.fields["candidates"].items = <<>>
             \/ LET c == b.fields["candidates"].items[1]
                IN  /\ IsDict(c)
                    /\ \/ ~Has(c, "content")
                       \/ /\ IsDict(c.fields["content"])
                          /\ \/ ~Has(c.fields["content"], "parts")
                             \/ LET ps == c.fields["content"].fields["parts"]
                                IN  /\ IsList(ps)
                                    /\ \/ ps.items = <<>>
                                       \/ /\ IsDict(ps.items[1])
                                          /\ ~Has(ps.items[1], "text")

\* the decoded value is not made of dicts and lists where the path expects them
StructureMismatch(b) == ~HasTextPath(b) /\ ~LacksTextPath(b)

\* the send succeeded and processing the response failed
ProcessingFailed(o) ==
    \/ o.kind = "NotJson"
    \/ o.kind = "Json" /\ StructureMismatch(o.body)

\* 2^n
Pow2Spec(n) == 2 ^ n

RECURSIVE Sum(_)
Sum(q) == IF q = <<>> THEN 0 ELSE Head(q) + Sum(Tail(q))

ConfigMissing == ~({"API_KEY", "API_URL"} \subseteq secrets)

(* ---------------------------------------------------------------------- *)
(* Properties                                                              *)
(* ---------------------------------------------------------------------- *)

\* C1: a call whose input is empty or whitespace only ends in
\* Failure(EmptyInput) (None returned, the "enter some code" error shown)
\* without a single POST and without a sleep.
C1_BlankInputNoPost ==
    \A i \in Calls :
        (pc[i] # "idle" /\ Blank(code_snippet[i])) =>
            /\ pc[i] = "done"
            /\ err[i] = "EmptyInput"
            /\ ret[i] = JNull
            /\ posts[i] = 0
            /\ hist[i] = <<>>
            /\ sleeps[i] = <<>>

C1_Witness ==
    \E i \in Calls :
        /\ pc[i] = "done"
        /\ code_snippet[i] = <<" ", "\n">>
        /\ err[i] = "EmptyInput"

\* C2: when the send step fails on every attempt, the call ends in
\* Failure(NetworkError) after exactly 3 POSTs, with the two sleeps 1s and 2s
\* before them and no sleep after the third failure.
C2_ThreeFailedSends ==
    \A i \in Calls :
        (hist[i] # <<>> /\ \A k \in 1..Len(hist[i]) : SendFailed(hist[i][k])) =>
            /\ posts[i] <= 3
            /\ (Len(hist[i]) = 3 => pc[i] = "done")
            /\ (pc[i] = "done" =>
                   /\ err[i] = "NetworkError"
                   /\ ret[i] = JNull
                   /\ posts[i] = 3
                   /\ sleeps[i] = <<1, 2>>)

C2_Witness ==
    \E i \in Calls :
        /\ pc[i] = "done"
        /\ hist[i] = <<ConnFail, HttpError, ConnFail>>
        /\ err[i] = "NetworkError"

\* C3: a send failure on attempt n in {0, 1} is followed by a sleep of exactly
\* 2^n seconds and then by attempt n+1; after two failures and an answer with
\* text the call is a Success on the third POST, having slept 1s then 2s.
C3_Backoff ==
    \A i \in Calls :
        /\ \A n \in {0, 1} :
              (Len(hist[i]) > n /\ SendFailed(hist[i][n + 1])) =>
                  \/ /\ pc[i] = "sleep"
                     /\ Len(hist[i]) = n + 1
                     /\ attempt[i] = n
                     /\ wait_time[i] = Pow2Spec(n)
                     /\ Len(sleeps[i]) = n
                  \/ /\ Len(sleeps[i]) > n
                     /\ sleeps[i][n + 1] = Pow2Spec(n)
                     /\ \/ pc[i] = "send" /\ attempt[i] = n + 1 /\ Len(hist[i]) = n + 1
                        \/ Len(hist[i]) >= n + 2
        /\ ( /\ Len(hist[i]) = 3
             /\ SendFailed(hist[i][1]) /\ SendFailed(hist[i][2])
             /\ hist[i][3].kind = "Json" /\ HasTextPath(hist[i][3].body)
             /\ TextAtPath(hist[i][3].body).type = "str"
             /\ TextAtPath(hist[i][3].body).val # "" ) =>
                 /\ pc[i] = "done"
                 /\ ret[i] = TextAtPath(hist[i][3].body)
                 /\ err[i] = "none"
                 /\ sleeps[i] = <<1, 2>>
                 /\ Sum(sleeps[i]) = 3
                 /\ posts[i] = 3

C3_Witness ==
    \E i \in Calls :
        /\ pc[i] = "done"
        /\ hist[i] = <<ConnFail, HttpError, Json(BodyText1)>>
        /\ sleeps[i] = <<1, 2>>
        /\ ret[i] = JStr("# commented\ncode")

\* C4: whenever a send succeeds and the body lacks the path
\* candidates[0].content.parts[0].text at any level, or the text there is the
\* empty string, the call ends in Failure(EmptyModelResponse) on that attempt.
C4_AbsentPathIsEmptyResponse ==
    \A i \in Calls :
        ( /\ Answered(i)
          /\ \/ LacksTextPath(Last(hist[i]).body)
             \/ /\ HasTextPath(Last(hist[i]).body)
                /\ TextAtPath(Last(hist[i]).body) = JStr("") ) =>
              /\ pc[i] = "done"
              /\ err[i] = "EmptyModelResponse"
              /\ ret[i] = JNull
              /\ Len(sleeps[i]) = Len(hist[i]) - 1

\* C5: whenever a send succeeds with a body whose text at the path is a
\* non-empty string t, the call returns exactly t and shows no error; on the
\* first attempt that is one POST and no sleep.
C5_TextPassedThrough ==
    \A i \in Calls :
        ( /\ Answered(i)
          /\ HasTextPath(Last(hist[i]).body)
          /\ TextAtPath(Last(hist[i]).body).type = "str"
          /\ TextAtPath(Last(hist[i]).body).val # "" ) =>
              /\ pc[i] = "done"
              /\ ret[i] = TextAtPath(Last(hist[i]).body)
              /\ err[i] = "none"
              /\ uncaught[i] = "none"
              /\ (Len(hist[i]) = 1 => posts[i] = 1 /\ sleeps[i] = <<>>)

C5_Witness ==
    \E i \in Calls :
        /\ pc[i] = "done"
        /\ hist[i] = <<Json(BodyText2)>>
        /\ ret[i] = JStr("  # print the number 1\nprint(1)\n")
        /\ posts[i] = 1

\* C6: whenever a send succeeds and processing the response fails (the body
\* is not JSON, or the decoded value has not the expected dict/list
\* structure), the call ends in Failure(UnexpectedError) on that attempt:
\* that POST is the last one and no sleep follows it.
C6_NoRetryOnProcessingFailure ==
    \A i \in Calls :
        \A k \in 1..Len(hist[i]) :
            ProcessingFailed(hist[i][k]) =>
                /\ k = Len(hist[i])
                /\ pc[i] = "done"
                /\ err[i] = "UnexpectedError"
                /\ ret[i] = JNull
                /\ Len(sleeps[i]) = k - 1

\* C7: no exception leaves the call: whatever the input and the answers, the
\* call never ends with an uncaught exception.
C7_NothingEscapes ==
    \A i \in Calls : pc[i] # "crashed" /\ uncaught[i] = "none"

C7_Witness ==
    \E i \in Calls :
        /\ pc[i] = "done"
        /\ Len(hist[i]) = 3
        /\ Last(hist[i]) = Json(BodyTopLevelList)
        /\ err[i] = "UnexpectedError"
        /\ uncaught[i] = "none"

\* C8: with API_KEY or API_URL missing, start-up reports the configuration
\* error and halts; no call is ever entered and no POST is ever sent.
C8_MissingConfigHalts ==
    ConfigMissing =>
        /\ app # "ready"
        /\ (app = "halted" => configError)
        /\ \A i \in Calls : pc[i] = "idle" /\ posts[i] = 0 /\ hist[i] = <<>>

C8_Witness ==
    /\ secrets = {"API_KEY"}
    /\ app = "halted"
    /\ configError

\* the five terminal states of a call
Terminal(i) ==
    /\ pc[i] = "done"
    /\ \/ Truthy(ret[i]) /\ err[i] = "none"
       \/ /\ ret[i] = JNull
          /\ err[i] \in {"EmptyInput", "EmptyModelResponse", "UnexpectedError",
                        "NetworkError"}

C9_Bounds ==
    \A i \in Calls :
        /\ posts[i] <= 3
        /\ Len(sleeps[i]) <= 2
        /\ Sum(sleeps[i]) <= 3
        /\ (pc[i] = "sleep" => Sum(sleeps[i]) + wait_time[i] <= 3)
        /\ (pc[i] \in {"done", "crashed"} => Terminal(i))

\* C9: every call that has begun eventually reaches one of the five terminal
\* states (its POSTs return and its sleeps end); it never makes more than 3
\* POSTs, never sleeps more than twice nor more than 3 seconds in total.
C9_TerminatesWithinBounds ==
    /\ []C9_Bounds
    /\ \A i \in Calls : (pc[i] \in {"send", "sleep"}) ~> Terminal(i)

C9_Witness ==
    \E i \in Calls :
        /\ Terminal(i)
        /\ posts[i] = 3
        /\ Sum(sleeps[i]) = 3
        /\ err[i] = "NetworkError"

\* what a call owns
Locals(i) ==
    << pc[i], code_snippet[i], attempt[i], wait_time[i], posts[i], sleeps[i],
       hist[i], err[i], ret[i], uncaught[i] >>

\* two calls with the same input and the same answers so far are at the same
\* place with the same counter, sleeps and outcome
C10_Determined ==
    \A i, j \in Calls :
        ( /\ code_snippet[i] = code_snippet[j]
          /\ hist[i] = hist[j]
          /\ pc[i] # "idle" /\ pc[j] # "idle"
          /\ Len(sleeps[i]) = Len(sleeps[j]) ) =>
              Locals(i) = Locals(j)

\* a step leaves the call that did not take it as it was, and nothing writes
\* the configuration once start-up is over
C10_Frame ==
    /\ \A i \in Calls :
          (pc'[i] = pc[i] /\ hist'[i] = hist[i]) => Locals(i)' = Locals(i)
    /\ app # "startup" => << API_KEY, API_URL, secrets >>' = << API_KEY, API_URL, secrets >>

\* C10: two calls interleaved in any way run independently: the attempt
\* counter, the sleeps and the outcome of a call are determined by its own
\* input and its own answers, a step of one call changes nothing of the
\* other, and API_KEY and API_URL are never written after start-up.
C10_Independent == []C10_Determined /\ [][C10_Frame]_vars

C10_Witness ==
    /\ pc[1] = "done" /\ pc[2] = "sleep"
    /\ hist[1] = <<ConnFail, Json(BodyText1)>>
    /\ sleeps[1] = <<1>>
    /\ hist[2] = <<HttpError, ConnFail>>
    /\ attempt[2] = 1
    /\ wait_time[2] = 2

====
